---- MODULE Spec2Model ----
(***************************************************************************)
(* Model of the KMRL-Vault front end: the axios client of services/api.js  *)
(* (request interceptor, response interceptor with its 401 handler,        *)
(* createSession), the per-endpoint wrapper functions, the chat page's     *)
(* initialisation and the upload pages that persist current_document.      *)
(***************************************************************************)
EXTENDS Integers, Sequences, FiniteSets, TLC

\* ------------------------------------------------------------------ bounds
NumSessions == 2   \* distinct create-session responses the backend hands out
MaxDepth == 2      \* 401 handlers one call can have suspended at once
MaxCount == 2      \* request counters saturate here
MaxMessages == 3   \* messages a chat transcript holds
MaxDocuments == 3  \* records the documents list holds

\* Two invocations of API functions; their promise chains may overlap.
Calls == {1, 2}
SessionIds == 1..NumSessions

\* ------------------------------------------------------------ value encoding
NoToken == 0                         \* localStorage.getItem(...) === null / no Authorization header
DocumentToken == NumSessions + 1     \* `Bearer ${documentToken}` put in the config by the caller
BearerNull == NumSessions + 2        \* a header built from a null token
Undefined == "<undefined>"           \* a field the object does not have
Truthy(x) == x \notin {Undefined, ""}

Min(a, b) == IF a < b THEN a ELSE b
Bump(n) == Min(n + 1, MaxCount)

VARIABLES
    storage,    \* localStorage: access_token, session_id, current_document
    calls,      \* per call: the promise chain of one invocation of an API function
    wrap,       \* one wrapper function applied to one outcome of the client
    chat,       \* the chat page (ChatBot.jsx, first snapshot)
    upload,     \* an upload page (Home / DocumentUpload) and the analysis shell
    analysis,   \* an analysis page (risk, summary, negotiation)
    keyword     \* the chat page that answers through the analysis endpoints

vars == <<storage, calls, wrap, chat, upload, analysis, keyword>>

\* ------------------------------------------------------------ api.js: client
\* Exported API functions of both snapshots of services/api.js; the _token
\* names are the document-token variants of the first snapshot.
PlainFns == {"storeDocumentChunks", "runRagAnalysis", "validateToken", "getSessionInfo"}
MessageFns == {"runRiskAnalysis", "runNegotiationAssistant", "runDocumentSummary"}
TokenFns == {"chatWithDocument_token", "getChatSuggestions_token", "explainLegalClause_token"}
SimpleChatFns == {"chatWithDocument", "getChatSuggestions", "explainLegalClause"}
OtherFns == {"generateDocumentToken", "getChatbotHealth", "apiCall"}
WrapperFns == PlainFns \cup MessageFns \cup TokenFns \cup SimpleChatFns \cup OtherFns
ApiFns == WrapperFns \cup {"createSession"}

\* The Authorization header the function's own config carries.
CallerAuth(fn) ==
    IF fn \in TokenFns THEN {DocumentToken}
    ELSE IF fn = "apiCall" THEN {NoToken, DocumentToken}
    ELSE {NoToken}

MsgOfStatus(s) ==
    IF s = 401 THEN "Request failed with status code 401"
    ELSE IF s = 500 THEN "Request failed with status code 500"
    ELSE "Network Error"

NoStatus == 0 - 1       \* a plain Error: no .response
NetworkFailure == 0     \* an axios error without .response

\* A request: cfg is config.headers.Authorization as the caller built it,
\* auth the header that leaves, tok the stored token the interceptor read.
NoReq == [cs |-> FALSE, cfg |-> NoToken, auth |-> NoToken, tok |-> NoToken, replay |-> FALSE]
NoResp == [status |-> NoStatus, detail |-> Undefined, message |-> Undefined,
           token |-> NoToken, session |-> NoToken]
NoOut == [how |-> "none", status |-> NoStatus, detail |-> Undefined, message |-> Undefined,
          token |-> NoToken, session |-> NoToken]

IdleCall == [st |-> "idle", kind |-> "plain", cur |-> NoReq, resp |-> NoResp,
             stack |-> <<>>, nCreate |-> 0, nReplay |-> 0, out |-> NoOut]

\* Bodies of error responses: FastAPI's {detail: ...}, or a body without it.
Details(req, status) ==
    IF status = 401
    THEN (IF req.cs THEN {Undefined} ELSE {"Invalid or expired token"})
    ELSE {Undefined, "Internal server error"}

Response(status, detail, pair) ==
    [status |-> status, detail |-> detail,
     message |-> (IF status = 200 THEN Undefined ELSE MsgOfStatus(status)),
     token |-> pair, session |-> pair]

\* What the backend (or the transport: network failure, timeout) can answer.
\* A create-session response i carries access_token i and session_id i.
Responses(req) ==
    { Response(200, Undefined, i) : i \in (IF req.cs THEN SessionIds ELSE {NoToken}) }
    \cup { Response(401, d, NoToken) : d \in Details(req, 401) }
    \cup { Response(500, d, NoToken) : d \in Details(req, 500) }
    \cup { Response(NetworkFailure, Undefined, NoToken) }

\* api.interceptors.request.use: attach the stored token if there is one.
RequestInterceptorNull(configAuth, token) ==
    IF token # NoToken THEN token ELSE BearerNull

RequestInterceptor(configAuth, token) ==
    IF token # NoToken THEN token ELSE configAuth

\* A request leaving through the request interceptor.
Send(cs, configAuth, token, replay) ==
    [cs |-> cs, cfg |-> configAuth, auth |-> RequestInterceptor(configAuth, token),
     tok |-> token, replay |-> replay]

Is401OrAnyHttpError(status) == status \in {401, 500}

\* error.response?.status === 401
Is401(status) == status = 401

\* createSession, success branch: both keys are written from the response.
CreateSessionStoreTokenOnly(st, resp) ==
    [st EXCEPT !.access_token = resp.token]

CreateSessionStore(st, resp) ==
    [st EXCEPT !.access_token = resp.token, !.session_id = resp.session]

\* createSession, catch branch: throw new Error(detail || 'Failed to create session')
CreateSessionError(err) ==
    [how |-> "rejected", status |-> NoStatus, detail |-> Undefined,
     message |-> (IF Truthy(err.detail) THEN err.detail ELSE "Failed to create session"),
     token |-> NoToken, session |-> NoToken]

Rejected(err) ==
    [how |-> "rejected", status |-> err.status, detail |-> err.detail, message |-> err.message,
     token |-> NoToken, session |-> NoToken]

Resolved(resp) ==
    [how |-> "resolved", status |-> resp.status, detail |-> Undefined, message |-> Undefined,
     token |-> resp.token, session |-> resp.session]

\* A failed createSession() inside a 401 handler is caught and the handler
\* rejects with its own original error; a rejected create-session request
\* makes the createSession() awaiting it throw in turn.
RECURSIVE Unwind(_, _)
Unwind(stack, err) ==
    IF stack = <<>> THEN err
    ELSE Unwind(SubSeq(stack, 1, Len(stack) - 1), stack[Len(stack)].err)

Top(stack) == stack[Len(stack)]
Pop(stack) == SubSeq(stack, 1, Len(stack) - 1)

\* The tokens the requests this call's 401 handlers are to replay were sent
\* with: the backend has rejected them, and issues none of them again.
RejectedTokens(stack) == { stack[i].tok : i \in 1..Len(stack) } \ {NoToken}

ReplayTokenBefore(before, after) == before.access_token

\* const token = localStorage.getItem(TOKEN_KEY), read once createSession()
\* has returned.
ReplayToken(before, after) == after.access_token

Settled(c) == calls[c].st \in {"resolved", "rejected"}

InFlight(c) == calls[c].st \in {"sent", "recv"}

\* What the client can tell apart about the invoked function: whether it is
\* createSession, and whether its config brings an Authorization header.
KindOf(fn, hdr) ==
    IF fn = "createSession" THEN "createSession"
    ELSE IF hdr # NoToken THEN "token"
    ELSE "plain"

\* The call an exported function starts: its request passes the request
\* interceptor.
Invoked(fn, hdr) ==
    [IdleCall EXCEPT
        !.st = "sent",
        !.kind = KindOf(fn, hdr),
        !.cur = Send(fn = "createSession", hdr, storage.access_token, FALSE)]

\* An exported function is invoked.
Invoke(c, fn, hdr) ==
    /\ calls[c].st = "idle"
    /\ hdr \in CallerAuth(fn)
    /\ calls' = [calls EXCEPT ![c] = Invoked(fn, hdr)]
    /\ UNCHANGED <<storage, wrap, chat, upload, analysis, keyword>>

\* One user action at a time: the pages disable their trigger while a request
\* is outstanding, so a call starts when no other call is in flight.
StartCall(c, fn, hdr) ==
    /\ \A d \in Calls : ~InFlight(d)
    /\ Invoke(c, fn, hdr)

\* DocumentUpload.createSession: fetch, no interceptors, no Authorization header.
StartFetchCreateSession(c) ==
    /\ \A d \in Calls : ~InFlight(d)
    /\ calls[c].st = "idle"
    /\ calls' = [calls EXCEPT ![c] =
          [IdleCall EXCEPT
              !.st = "sent",
              !.kind = "fetchCreateSession",
              !.cur = [cs |-> TRUE, cfg |-> NoToken, auth |-> NoToken,
                       tok |-> storage.access_token, replay |-> FALSE]]]
    /\ UNCHANGED <<storage, wrap, chat, upload, analysis, keyword>>

\* The backend answers, or the transport gives up (timeout: 60000).
BackendRespond(c, r) ==
    /\ calls[c].st = "sent"
    /\ r \in Responses(calls[c].cur)
    /\ (calls[c].kind # "fetchCreateSession" /\ Is401(r.status)) => Len(calls[c].stack) < MaxDepth
    /\ (calls[c].cur.cs /\ r.status = 200) => r.token \notin RejectedTokens(calls[c].stack)
    /\ calls' = [calls EXCEPT ![c].st = "recv", ![c].resp = r]
    /\ UNCHANGED <<storage, wrap, chat, upload, analysis, keyword>>

\* DocumentUpload.createSession after the fetch.
FetchCreateSessionDone(c) ==
    LET k == calls[c] IN
    /\ k.st = "recv"
    /\ k.kind = "fetchCreateSession"
    /\ IF k.resp.status = 200
       THEN /\ storage' = CreateSessionStore(storage, k.resp)
            /\ calls' = [calls EXCEPT ![c].st = "resolved", ![c].cur = NoReq, ![c].resp = NoResp,
                                      ![c].out = Resolved(k.resp)]
       ELSE /\ storage' = storage
            /\ calls' = [calls EXCEPT ![c].st = "rejected", ![c].cur = NoReq, ![c].resp = NoResp,
                             ![c].out = [CreateSessionError(NoResp) EXCEPT
                                            !.message = "Failed to create session"]]
    /\ UNCHANGED <<wrap, chat, upload, analysis, keyword>>

\* Response interceptor, success handler, and what the awaiting code does next:
\* createSession stores the pair and returns; a 401 handler that awaited it
\* reads the token back and replays its original request.
ResponseOk(c) ==
    LET k == calls[c] IN
    /\ k.st = "recv"
    /\ k.kind # "fetchCreateSession"
    /\ k.resp.status = 200
    /\ IF k.cur.cs
       THEN LET stored == CreateSessionStore(storage, k.resp)
                token == ReplayToken(storage, stored)
            IN /\ storage' = stored
               /\ IF k.stack = <<>>
                  THEN calls' = [calls EXCEPT ![c].st = "resolved", ![c].cur = NoReq, ![c].resp = NoResp,
                                              ![c].out = Resolved(k.resp)]
                  ELSE IF token # NoToken
                  THEN calls' = [calls EXCEPT
                          ![c].st = "sent", ![c].resp = NoResp,
                          ![c].stack = Pop(k.stack),
                          ![c].cur = Send(Top(k.stack).cs, token, token, TRUE),
                          ![c].nReplay = IF Len(k.stack) = 1 THEN Bump(@) ELSE @,
                          ![c].nCreate = IF Len(k.stack) > 1 THEN Bump(@) ELSE @]
                  ELSE LET e == Unwind(k.stack, k.resp) IN
                       calls' = [calls EXCEPT ![c].st = "rejected", ![c].cur = NoReq, ![c].resp = NoResp,
                                    ![c].stack = <<>>,
                                    ![c].out = IF k.kind = "createSession"
                                               THEN CreateSessionError(e) ELSE Rejected(e)]
       ELSE /\ storage' = storage
            /\ calls' = [calls EXCEPT ![c].st = "resolved", ![c].cur = NoReq, ![c].resp = NoResp,
                                      ![c].out = Resolved(k.resp)]
    /\ UNCHANGED <<wrap, chat, upload, analysis, keyword>>

Response401Shares(c) ==
    LET k == calls[c] IN
    /\ k.st = "recv"
    /\ k.kind # "fetchCreateSession"
    /\ k.resp.status # 200
    /\ Is401(k.resp.status)
    /\ storage' = [storage EXCEPT !.access_token = NoToken]
    /\ calls' = IF \E d \in Calls \ {c} : InFlight(d) /\ calls[d].cur.cs
                THEN [calls EXCEPT ![c].st = "rejected", ![c].cur = NoReq, ![c].resp = NoResp,
                                   ![c].stack = <<>>, ![c].out = Rejected(k.resp)]
                ELSE [calls EXCEPT
                        ![c].st = "sent", ![c].resp = NoResp,
                        ![c].stack = Append(k.stack, [cs |-> k.cur.cs, tok |-> k.cur.tok,
                                                      err |-> k.resp]),
                        ![c].cur = Send(TRUE, NoToken, storage'.access_token, FALSE),
                        ![c].nCreate = Bump(@)]
    /\ UNCHANGED <<wrap, chat, upload, analysis, keyword>>

\* Response interceptor, error handler, 401 branch: drop the token, call
\* createSession(), whose request passes the request interceptor.
Response401(c) ==
    LET k == calls[c] IN
    /\ k.st = "recv"
    /\ k.kind # "fetchCreateSession"
    /\ k.resp.status # 200
    /\ Is401(k.resp.status)
    /\ storage' = [storage EXCEPT !.access_token = NoToken]
    /\ calls' = [calls EXCEPT
          ![c].st = "sent", ![c].resp = NoResp,
          ![c].stack = Append(k.stack, [cs |-> k.cur.cs, tok |-> k.cur.tok, err |-> k.resp]),
          ![c].cur = Send(TRUE, NoToken, storage'.access_token, FALSE),
          ![c].nCreate = Bump(@)]
    /\ UNCHANGED <<wrap, chat, upload, analysis, keyword>>

\* Response interceptor, error handler, any other failure: Promise.reject(error).
ResponseError(c) ==
    LET k == calls[c]
        thrown == IF k.cur.cs THEN CreateSessionError(k.resp) ELSE Rejected(k.resp)
        e == Unwind(k.stack, k.resp)
    IN
    /\ k.st = "recv"
    /\ k.kind # "fetchCreateSession"
    /\ k.resp.status # 200
    /\ ~Is401(k.resp.status)
    /\ storage' = storage
    /\ calls' = [calls EXCEPT
          ![c].st = "rejected", ![c].cur = NoReq, ![c].resp = NoResp, ![c].stack = <<>>,
          ![c].out = IF k.stack = <<>> THEN thrown
                     ELSE IF k.kind = "createSession" THEN CreateSessionError(e)
                     ELSE Rejected(e)]
    /\ UNCHANGED <<wrap, chat, upload, analysis, keyword>>

\* getItem answers null for a key never written.
NoDocument == [null |-> TRUE]

\* The user who has logged in: DocumentUpload and the analysis pages are shown
\* to a logged-in user.
CurrentUser == [id |-> "u1"]

InitStorage ==
    { [access_token |-> t, session_id |-> t, current_document |-> NoDocument,
       documents |-> <<>>, currentUser |-> CurrentUser] :
        t \in {NoToken, 1} }

WrapIdle == [pc |-> "off"]
ChatIdle == [pc |-> "off"]
UploadIdle == [pc |-> "off"]
AnalysisIdle == [pc |-> "off"]
KeywordIdle == [pc |-> "off"]

Init ==
    /\ storage \in InitStorage
    /\ calls = [c \in Calls |-> IdleCall]
    /\ wrap = WrapIdle
    /\ chat = ChatIdle
    /\ upload = UploadIdle
    /\ analysis = AnalysisIdle
    /\ keyword = KeywordIdle

Next ==
    \E c \in Calls :
        \/ \E fn \in ApiFns, hdr \in {NoToken, DocumentToken} : StartCall(c, fn, hdr)
        \/ StartFetchCreateSession(c)
        \/ \E r \in Responses([cs |-> TRUE]) \cup Responses([cs |-> FALSE]) : BackendRespond(c, r)
        \/ FetchCreateSessionDone(c)
        \/ ResponseOk(c)
        \/ Response401(c)
        \/ ResponseError(c)

Spec == Init /\ [][Next]_vars

Respond(c) == \E r \in Responses([cs |-> TRUE]) \cup Responses([cs |-> FALSE]) : BackendRespond(c, r)
Handle(c) == FetchCreateSessionDone(c) \/ ResponseOk(c) \/ Response401(c) \/ ResponseError(c)

\* Every request is answered or times out (timeout: 60000), and the event loop
\* runs every handler whose response has arrived.
FairSpec == Spec /\ \A c \in Calls : WF_vars(Respond(c)) /\ WF_vars(Handle(c))

\* Two calls of exported functions whose promise chains overlap: nothing in
\* the client keeps a second function, createSession included, from being
\* invoked while the first is in flight.
RaceFns == {"runRiskAnalysis", "runDocumentSummary", "createSession"}

\* The second call is the one invoked second.
InvokeRace(c, fn) ==
    /\ \A d \in Calls : d < c => calls[d].st # "idle"
    /\ Invoke(c, fn, NoToken)

\* Here the backend answers a create-session request with a session or with
\* a failure other than 401; a 401 to create-session is followed in Spec.
RespondRace(c, r) ==
    /\ ~(calls[c].cur.cs /\ Is401(r.status))
    /\ BackendRespond(c, r)

NextRace ==
    \E c \in Calls :
        \/ \E fn \in RaceFns : InvokeRace(c, fn)
        \/ \E r \in Responses([cs |-> TRUE]) \cup Responses([cs |-> FALSE]) : RespondRace(c, r)
        \/ ResponseOk(c)
        \/ Response401(c)
        \/ ResponseError(c)

SpecRace == Init /\ [][NextRace]_vars

\* ------------------------------------------------- api.js: wrapper functions
\* Each exported function awaits the client and reshapes what it gets.  The
\* client settles a call either with a response (its body) or with an error
\* (status, body detail, transport message); the wrappers are applied to both.
Get(body, f) == IF f \in DOMAIN body THEN body[f] ELSE Undefined
Or(x, dflt) == IF Truthy(x) THEN x ELSE dflt

DefaultSuggestions ==
    << "What are the key terms in this document?",
       "What are the main obligations?",
       "Are there any risks I should know about?",
       "What are the payment terms?",
       "What are the termination conditions?" >>

ChatFields == {"response", "sources", "conversation_id", "timestamp", "context_used",
               "model_used", "confidence_score"}

\* Response bodies the backend may send to each function.
Bodies(fn) ==
    IF fn = "createSession"
        THEN { [access_token |-> i, session_id |-> i] : i \in SessionIds }
    ELSE IF fn = "generateDocumentToken"
        THEN { [token |-> "jwt", expires_at |-> "2025-12-31"], [token |-> "jwt"] }
    ELSE IF fn \in {"chatWithDocument", "chatWithDocument_token"}
        THEN { [response |-> "answer", sources |-> "[chunk 3]", conversation_id |-> "conv1",
                timestamp |-> "t1", context_used |-> "8", model_used |-> "llm",
                confidence_score |-> "0.9"],
               [response |-> "answer", conversation_id |-> "conv1"] }
    ELSE IF fn \in {"getChatSuggestions", "getChatSuggestions_token"}
        THEN { [suggested_questions |-> <<"Who signs?", "What is the term?">>,
                category |-> "contract"],
               [suggested_questions |-> <<>>, category |-> "contract"],
               [category |-> "contract"] }
    ELSE IF fn \in {"explainLegalClause", "explainLegalClause_token"}
        THEN { [clause_explanation |-> "explained", analysis_type |-> "clause",
                timestamp |-> "t1"] }
    ELSE IF fn = "getChatbotHealth"
        THEN { [status |-> "healthy", features |-> "chat", capabilities |-> "rag"],
               [status |-> "degraded"] }
    ELSE { [analysis |-> "result"], [chunks_stored |-> "3", session_document_id |-> "sd1"] }

\* Errors the client may reject with: an HTTP error with or without a detail
\* in its body (possibly an empty one), or a transport error without response.
ClientErrors ==
    { [status |-> s, detail |-> d, message |-> MsgOfStatus(s)] :
        s \in {401, 500}, d \in {Undefined, "", "Document not found"} }
    \cup { [status |-> NetworkFailure, detail |-> Undefined, message |-> m] :
             m \in {"Network Error", "timeout of 60000ms exceeded"} }

\* The literal each function falls back to.
GenericMessage(fn) ==
    CASE fn = "createSession" -> "Failed to create session"
      [] fn = "storeDocumentChunks" -> "Failed to store document"
      [] fn = "runRiskAnalysis" -> "Risk analysis failed"
      [] fn = "runNegotiationAssistant" -> "Negotiation assistance failed"
      [] fn = "runDocumentSummary" -> "Document summary failed"
      [] fn = "generateDocumentToken" -> "Failed to generate document token"
      [] fn \in {"chatWithDocument", "chatWithDocument_token"} -> "Chat request failed"
      [] fn \in {"getChatSuggestions", "getChatSuggestions_token"} ->
            "Failed to get chat suggestions"
      [] fn \in {"explainLegalClause", "explainLegalClause_token"} ->
            "Failed to explain legal clause"
      [] fn = "getChatbotHealth" -> "Chatbot health check failed"
      [] fn = "apiCall" -> "API call failed"
      [] fn = "runRagAnalysis" -> "Analysis failed"
      [] fn = "validateToken" -> "Token validation failed"
      [] fn = "getSessionInfo" -> "Failed to get session info"

\* The functions whose catch reads  detail || error.message || literal.
UsesErrorMessage(fn) ==
    fn \in MessageFns \cup {"chatWithDocument", "chatWithDocument_token", "apiCall"}

ErrorTextGenericOnly(fn, err) == GenericMessage(fn)

\* error.response?.data?.detail || [error.message ||] literal
ErrorText(fn, err) ==
    IF UsesErrorMessage(fn)
    THEN Or(err.detail, Or(err.message, GenericMessage(fn)))
    ELSE Or(err.detail, GenericMessage(fn))

SuccessValueResult(fn, body) == [success |-> TRUE, result |-> body]

\* What a function returns for a response with the given body.
SuccessValue(fn, body) ==
    IF fn \in PlainFns \cup MessageFns
        THEN [success |-> TRUE, data |-> body]
    ELSE IF fn = "generateDocumentToken"
        THEN [success |-> TRUE, token |-> Get(body, "token"),
              expires_at |-> Get(body, "expires_at")]
    ELSE IF fn = "chatWithDocument_token"
        THEN [success |-> TRUE,
              data |-> [response |-> Get(body, "response"),
                        sources |-> Or(Get(body, "sources"), "[]"),
                        conversation_id |-> Get(body, "conversation_id"),
                        timestamp |-> Get(body, "timestamp"),
                        context_used |-> Get(body, "context_used"),
                        model_used |-> Get(body, "model_used"),
                        confidence_score |-> Get(body, "confidence_score")]]
    ELSE IF fn = "chatWithDocument"
        THEN [success |-> TRUE,
              data |-> Get(body, "response"),
              sources |-> Or(Get(body, "sources"), "[]"),
              conversation_id |-> Get(body, "conversation_id"),
              timestamp |-> Get(body, "timestamp"),
              context_used |-> Get(body, "context_used"),
              model_used |-> Get(body, "model_used"),
              confidence_score |-> Get(body, "confidence_score")]
    ELSE IF fn \in {"getChatSuggestions", "getChatSuggestions_token"}
        THEN [success |-> TRUE,
              suggestions |-> (IF "suggested_questions" \in DOMAIN body
                               THEN body.suggested_questions ELSE <<>>),
              category |-> Get(body, "category")]
    ELSE IF fn \in {"explainLegalClause", "explainLegalClause_token"}
        THEN [success |-> TRUE, explanation |-> Get(body, "clause_explanation"),
              analysis_type |-> Get(body, "analysis_type"),
              timestamp |-> Get(body, "timestamp")]
    ELSE IF fn = "getChatbotHealth"
        THEN [success |-> TRUE, health |-> body, status |-> Get(body, "status"),
              features |-> Get(body, "features"),
              capabilities |-> Get(body, "capabilities")]
    ELSE IF fn = "createSession"
        THEN [access_token |-> body.access_token, session_id |-> body.session_id]
    ELSE body

\* What a function returns from its catch block (createSession and apiCall
\* have no such value: they throw).
FailureValue(fn, err) ==
    IF fn \in {"getChatSuggestions", "getChatSuggestions_token"}
        THEN [success |-> FALSE, error |-> ErrorText(fn, err),
              suggestions |-> DefaultSuggestions]
    ELSE IF fn = "getChatbotHealth"
        THEN [success |-> FALSE, error |-> ErrorText(fn, err), status |-> "unknown"]
    ELSE [success |-> FALSE, error |-> ErrorText(fn, err)]

Throws(fn) == fn \in {"createSession", "apiCall"}

WrapperRethrows(fn, outcome) ==
    IF outcome.ok
    THEN [how |-> "resolved", value |-> SuccessValue(fn, outcome.body)]
    ELSE [how |-> "rejected", value |-> [message |-> ErrorText(fn, outcome.err)]]

\* try { response = await api...; return ... } catch (error) { ... }
Wrapper(fn, outcome) ==
    IF outcome.ok
    THEN [how |-> "resolved", value |-> SuccessValue(fn, outcome.body)]
    ELSE IF Throws(fn)
    THEN [how |-> "rejected", value |-> [message |-> ErrorText(fn, outcome.err)]]
    ELSE [how |-> "resolved", value |-> FailureValue(fn, outcome.err)]

NoError == [status |-> NoStatus, detail |-> Undefined, message |-> Undefined]
NoBody == [none |-> Undefined]

\* A function is invoked and awaits the client.
CallWrapper(fn) ==
    /\ wrap.pc = "off"
    /\ wrap' = [pc |-> "awaiting", fn |-> fn]
    /\ UNCHANGED <<storage, calls, chat, upload, analysis, keyword>>

\* The client resolves with a response.
ClientResolves(body) ==
    /\ wrap.pc = "awaiting"
    /\ body \in Bodies(wrap.fn)
    /\ wrap' = [pc |-> "settled", fn |-> wrap.fn,
                outcome |-> [ok |-> TRUE, body |-> body, err |-> NoError]]
    /\ UNCHANGED <<storage, calls, chat, upload, analysis, keyword>>

\* The client rejects with an error.
ClientRejects(err) ==
    /\ wrap.pc = "awaiting"
    /\ wrap' = [pc |-> "settled", fn |-> wrap.fn,
                outcome |-> [ok |-> FALSE, body |-> NoBody, err |-> err]]
    /\ UNCHANGED <<storage, calls, chat, upload, analysis, keyword>>

\* The function's own code after the await; createSession also stores the pair.
WrapperReturns ==
    /\ wrap.pc = "settled"
    /\ wrap' = [pc |-> "returned", fn |-> wrap.fn, outcome |-> wrap.outcome,
                ret |-> Wrapper(wrap.fn, wrap.outcome)]
    /\ storage' = IF wrap.fn = "createSession" /\ wrap.outcome.ok
                  THEN CreateSessionStore(storage,
                          [token |-> wrap.outcome.body.access_token,
                           session |-> wrap.outcome.body.session_id])
                  ELSE storage
    /\ UNCHANGED <<calls, chat, upload, analysis, keyword>>

AllBodies == UNION { Bodies(fn) : fn \in ApiFns }

NextWrap ==
    \/ \E fn \in ApiFns : CallWrapper(fn)
    \/ \E body \in AllBodies : ClientResolves(body)
    \/ \E err \in ClientErrors : ClientRejects(err)
    \/ WrapperReturns

SpecWrap == Init /\ [][NextWrap]_vars

\* ------------------------------------------------------------- chat page
\* The ChatBot page's initialisation (pages/ChatBot.jsx) over
\* chatbot.initialize of either api.js variant.  A call of the client is
\* taken by its outcome: it resolves with a body or rejects with an error.
ChatVariants == {"token", "simple"}

\* The documentInfo the analysis shell passes: a parsed current_document.
DocumentInfos ==
    { [document_id |-> "doc_lease_pdf_1", document_name |-> "lease.pdf"],
      [document_name |-> "lease.pdf"] }

Outcomes(fn) ==
    { [ok |-> TRUE, body |-> b, err |-> NoError] : b \in Bodies(fn) }
    \cup { [ok |-> FALSE, body |-> NoBody, err |-> e] : e \in ClientErrors }

NoResult == [none |-> Undefined]

\* useState initial values of a mounted page.
ChatMounted(variant, documentInfo) ==
    [pc |-> "idle", variant |-> variant, documentInfo |-> documentInfo,
     sessionId |-> NoToken, error |-> <<>>, suggestions |-> <<>>,
     welcome |-> FALSE, tokenResult |-> NoResult, suggestionsCall |-> "none",
     outcome |-> NoResult,
     messages |-> <<>>, isLoading |-> FALSE, showSuggestions |-> TRUE,
     conversationId |-> Undefined]

\* initializeChatBot up to its await.
InitializeChatBot(ch) ==
    IF storage.session_id = NoToken
    THEN [ch EXCEPT !.error = <<"No session found. Please refresh the page.">>]
    ELSE IF ch.documentInfo = NoDocument
    THEN [ch EXCEPT !.sessionId = storage.session_id,
                    !.error = <<"No document loaded. Please upload a document first.">>]
    ELSE [ch EXCEPT !.sessionId = storage.session_id,
                    !.pc = IF ch.variant = "token" THEN "awaitToken"
                           ELSE "awaitSuggestions"]

ChatbotInitializeForwards(variant, tokenResult, suggestionsResult) == suggestionsResult

\* What chatbot.initialize returns once getChatSuggestions has returned.
ChatbotInitialize(variant, tokenResult, suggestionsResult) ==
    LET suggestions == IF "suggestions" \in DOMAIN suggestionsResult
                       THEN suggestionsResult.suggestions ELSE <<>>
    IN IF variant = "token"
       THEN [success |-> TRUE, token |-> tokenResult.token, suggestions |-> suggestions]
       ELSE [success |-> TRUE, suggestions |-> suggestions]

WelcomeMessage == [role |-> "assistant", content |-> "welcome", isError |-> FALSE]
ClearedMessage == [role |-> "assistant", content |-> "cleared", isError |-> FALSE]

\* initializeChatBot after its await.
InitializeChatBotDone(ch, initResult) ==
    IF initResult.success
    THEN [ch EXCEPT !.pc = "done", !.suggestions = initResult.suggestions,
                    !.welcome = TRUE, !.messages = <<WelcomeMessage>>]
    ELSE [ch EXCEPT !.pc = "done",
                    !.error = << "Failed to initialize chat assistant: ",
                                 Or(Get(initResult, "error"),
                                    "Failed to initialize chatbot") >>]

\* The page is rendered; its effect runs.
MountChatBot(variant, documentInfo) ==
    /\ chat.pc = "off"
    /\ chat' = InitializeChatBot(ChatMounted(variant, documentInfo))
    /\ UNCHANGED <<storage, calls, wrap, upload, analysis, keyword>>

\* The analysis shell sets documentInfo after its own effect; the page's
\* effect runs again.
DocumentInfoChanges(documentInfo) ==
    /\ chat.pc = "idle"
    /\ chat.documentInfo = NoDocument
    /\ chat' = InitializeChatBot([chat EXCEPT !.documentInfo = documentInfo])
    /\ UNCHANGED <<storage, calls, wrap, upload, analysis, keyword>>

\* generateDocumentToken returns (token variant only).
TokenCallSettles(outcome) ==
    /\ chat.pc = "awaitToken"
    /\ LET tokenResult == Wrapper("generateDocumentToken", outcome).value IN
       chat' = IF tokenResult.success
               THEN [chat EXCEPT !.pc = "awaitSuggestions", !.tokenResult = tokenResult]
               ELSE InitializeChatBotDone([chat EXCEPT !.tokenResult = tokenResult],
                                          tokenResult)
    /\ UNCHANGED <<storage, calls, wrap, upload, analysis, keyword>>

SuggestionsFn(variant) ==
    IF variant = "token" THEN "getChatSuggestions_token" ELSE "getChatSuggestions"

\* getChatSuggestions returns, then chatbot.initialize, then the page's code.
SuggestionsCallSettles(outcome) ==
    /\ chat.pc = "awaitSuggestions"
    /\ LET suggestionsResult == Wrapper(SuggestionsFn(chat.variant), outcome).value
           initResult == ChatbotInitialize(chat.variant, chat.tokenResult,
                                           suggestionsResult)
       IN chat' = InitializeChatBotDone(
                     [chat EXCEPT !.suggestionsCall = IF outcome.ok THEN "ok" ELSE "failed",
                                  !.outcome = outcome],
                     initResult)
    /\ UNCHANGED <<storage, calls, wrap, upload, analysis, keyword>>

\* What the user types or clicks: blank input, or a question.
Texts == {"What is the term?", "", "  "}

\* messageText.trim()
Trim(text) == IF text = "  " THEN "" ELSE text

\* The page shows its error panel instead of the conversation while there is
\* an error and no message.
ChatRendered == chat.pc # "off" /\ ~(chat.error # <<>> /\ chat.messages = <<>>)

ChatFn(variant) == IF variant = "token" THEN "chatWithDocument_token" ELSE "chatWithDocument"

\* sendMessage up to its await.  The textarea is disabled while isLoading,
\* and the function returns at once for blank text.
SendMessageUpTo(ch, text) ==
    IF ~Truthy(Trim(text)) \/ ch.isLoading THEN ch
    ELSE [ch EXCEPT
            !.messages = Append(@, [role |-> "user", content |-> text, isError |-> FALSE]),
            !.isLoading = TRUE, !.error = <<>>, !.showSuggestions = FALSE]

\* The user sends a text that passes the guard.
SendMessage(text) ==
    /\ ChatRendered
    /\ chat.documentInfo # NoDocument
    /\ Truthy(Trim(text)) /\ ~chat.isLoading
    /\ Len(chat.messages) + 2 <= MaxMessages
    /\ chat' = SendMessageUpTo(chat, text)
    /\ UNCHANGED <<storage, calls, wrap, upload, analysis, keyword>>

\* parseAndFormatResponse reads rawResponse.includes: a TypeError unless the
\* envelope's data is a string, which it is in the variant without tokens.
IsText(variant, response) == variant = "simple" /\ Truthy(Get(response, "data"))

\* sendMessage after its await: the reply or the error bubble is appended to
\* the messages as they are then, and finally isLoading is reset.
SendMessageDone(ch, response) ==
    IF response.success /\ IsText(ch.variant, response)
    THEN [ch EXCEPT
            !.messages = Append(@, [role |-> "assistant", content |-> response.data,
                                    isError |-> FALSE]),
            !.conversationId = Or(Get(response, "conversation_id"), "conv_now"),
            !.isLoading = FALSE]
    ELSE [ch EXCEPT
            !.messages = Append(@, [role |-> "assistant", content |-> "error occurred",
                                    isError |-> TRUE]),
            !.error = << IF response.success
                         THEN "rawResponse.includes is not a function"
                         ELSE Or(Get(response, "error"), "Chat response failed") >>,
            !.isLoading = FALSE]

\* chatbot.chat returns to the sendMessage that awaits it.
ChatCallSettles(outcome) ==
    /\ chat.pc # "off"
    /\ chat.isLoading
    /\ chat' = SendMessageDone(chat, Wrapper(ChatFn(chat.variant), outcome).value)
    /\ UNCHANGED <<storage, calls, wrap, upload, analysis, keyword>>

\* clearConversation: the button in the header.
ClearConversation ==
    /\ ChatRendered
    /\ chat' = [chat EXCEPT !.messages = <<ClearedMessage>>,
                            !.showSuggestions = TRUE, !.error = <<>>]
    /\ UNCHANGED <<storage, calls, wrap, upload, analysis, keyword>>

\* Requests the page has started and not yet seen settle.
OutstandingChat ==
    IF chat.pc = "off" THEN 0
    ELSE (IF chat.pc \in {"awaitToken", "awaitSuggestions"} THEN 1 ELSE 0)
         + (IF chat.isLoading THEN 1 ELSE 0)

\* The user leaves the page; a later mount starts from the initial values.
UnmountChatBot ==
    /\ chat.pc \in {"idle", "done"}
    /\ ~chat.isLoading
    /\ chat' = ChatIdle
    /\ UNCHANGED <<storage, calls, wrap, upload, analysis, keyword>>

NextChat ==
    \/ \E v \in ChatVariants, d \in DocumentInfos \cup {NoDocument} : MountChatBot(v, d)
    \/ \E d \in DocumentInfos : DocumentInfoChanges(d)
    \/ \E o \in Outcomes("generateDocumentToken") : TokenCallSettles(o)
    \/ \E o \in Outcomes("getChatSuggestions") : SuggestionsCallSettles(o)
    \/ \E t \in Texts : SendMessage(t)
    \/ \E o \in Outcomes("chatWithDocument") : ChatCallSettles(o)
    \/ ClearConversation
    \/ UnmountChatBot

SpecChat == Init /\ [][NextChat]_vars

\* ----------------------------------------------------------- upload pages
\* The Home page (src/unnamed/part_004) and the DocumentUpload component up
\* to navigateToAnalysis, and the analysis shell reading current_document
\* back.  Both pages call the backend with fetch; a call is taken by its
\* outcome.  DocumentUpload's per-user documents list is followed by
\* SpecDocuments further down.
Pages == {"Home", "DocumentUpload"}
Files == {"lease.pdf", "notes.txt"}
InvalidFiles == {"photo.png"}
NoFile == Undefined
Times == {1, 2}

IsPDF(name) == name = "lease.pdf"

\* `doc_${name.replace(/[^a-zA-Z0-9]/g, '_')}_${Date.now()}`
ClientDocumentId(name, now) ==
    CASE name = "lease.pdf" /\ now = 1 -> "doc_lease_pdf_1"
      [] name = "lease.pdf" /\ now = 2 -> "doc_lease_pdf_2"
      [] name = "notes.txt" /\ now = 1 -> "doc_notes_txt_1"
      [] name = "notes.txt" /\ now = 2 -> "doc_notes_txt_2"

\* Ids the backend assigns to an uploaded PDF.
ServerDocumentIds == {"pdf_7f3a"}

\* POST /documents/upload-pdf -> {document_id, chunks_stored, extraction_info}
UploadPdfBodies ==
    { [document_id |-> d, chunks_stored |-> "12", extraction_info |-> "quality 9.1"] :
        d \in ServerDocumentIds }

\* POST /documents/store_chunks -> {chunks_stored, session_document_id},
\* with or without the request's document_id echoed.
StoreChunksBodies(document_id) ==
    { [chunks_stored |-> "3", session_document_id |-> "sd_1"],
      [chunks_stored |-> "3", session_document_id |-> "sd_1",
       document_id |-> document_id] }

\* JSON.stringify leaves out the keys whose value is undefined; JSON.parse
\* gives the object of the keys written.
JsonStringify(obj) == [k \in {f \in DOMAIN obj : obj[f] # Undefined} |-> obj[k]]
JsonParse(text) == text

\* DocumentUpload's initializeSession reads the user and, last, the user's
\* documents list.
LoadDocuments(page) == IF page = "Home" THEN <<>> ELSE JsonParse(storage.documents)

UploadMounted(page) ==
    [pc |-> "page", page |-> page, creating |-> FALSE, sessionToken |-> NoToken,
     sessionId |-> NoToken,
     selectedFile |-> NoFile, isProcessing |-> FALSE, success |-> FALSE,
     processingResult |-> NoResult, error |-> "", pending |-> NoResult,
     stored |-> NoResult, documentInfo |-> NoDocument,
     currentUser |-> NoResult, uploadedDocuments |-> <<>>,
     loading |-> TRUE, redirectScheduled |-> FALSE,
     uploadProgress |-> 0, timers |-> 0]

\* The mount effect's initializeSession up to its await.  Home wants both
\* the token and the session id, DocumentUpload only the token.
NeedsSessionIdOnly(page) == storage.session_id = NoToken

NeedsSession(page) ==
    IF page = "Home"
    THEN storage.access_token = NoToken \/ storage.session_id = NoToken
    ELSE storage.access_token = NoToken

MountUpload(page) ==
    /\ upload.pc = "off"
    /\ upload' = IF NeedsSession(page)
                 THEN [UploadMounted(page) EXCEPT
                         !.creating = TRUE,
                         !.currentUser = IF page = "Home" THEN NoResult ELSE CurrentUser]
                 ELSE [UploadMounted(page) EXCEPT
                         !.sessionToken = storage.access_token,
                         !.sessionId = IF page = "Home" THEN storage.session_id ELSE NoToken,
                         !.currentUser = IF page = "Home" THEN NoResult ELSE CurrentUser,
                         !.uploadedDocuments = LoadDocuments(page)]
    /\ UNCHANGED <<storage, calls, wrap, chat, analysis, keyword>>

\* initializeSession after createSession has settled.
SessionCreated(outcome) ==
    /\ upload.pc = "page"
    /\ upload.creating
    /\ IF outcome.ok
       THEN /\ storage' = CreateSessionStore(storage,
                             [token |-> outcome.body.access_token,
                              session |-> outcome.body.session_id])
            /\ upload' = [upload EXCEPT
                            !.creating = FALSE,
                            !.sessionToken = outcome.body.access_token,
                            !.sessionId = IF upload.page = "Home"
                                          THEN outcome.body.session_id ELSE NoToken,
                            !.uploadedDocuments = LoadDocuments(upload.page)]
       ELSE /\ storage' = storage
            /\ upload' = [upload EXCEPT !.creating = FALSE,
                            !.error = "Failed to initialize session. Please refresh the page.",
                            !.uploadedDocuments = LoadDocuments(upload.page)]
    /\ UNCHANGED <<calls, wrap, chat, analysis, keyword>>

\* Where the page lets the user pick or drop a file.  Home's drop zone is
\* always there; DocumentUpload shows its zone only with nothing selected,
\* nothing in progress and no result.
CanSelect ==
    IF upload.page = "Home" THEN TRUE
    ELSE upload.selectedFile = NoFile /\ ~upload.isProcessing
         /\ upload.processingResult = NoResult

\* handleFileSelect
HandleFileSelect(file) ==
    /\ upload.pc = "page"
    /\ CanSelect
    /\ upload' = IF file \in InvalidFiles
                 THEN [upload EXCEPT !.error = "Unsupported file type"]
                 ELSE [upload EXCEPT !.selectedFile = file, !.error = "",
                                     !.success = FALSE, !.processingResult = NoResult]
    /\ UNCHANGED <<storage, calls, wrap, chat, analysis, keyword>>

\* Home's x button, DocumentUpload's removeFile and its "Upload Another
\* Document" button.
CanRemove ==
    IF upload.page = "Home" THEN upload.selectedFile # NoFile
    ELSE \/ upload.selectedFile # NoFile /\ ~upload.isProcessing
            /\ upload.processingResult = NoResult
         \/ upload.processingResult # NoResult /\ upload.success

RemoveFile ==
    /\ upload.pc = "page"
    /\ CanRemove
    /\ upload' = [upload EXCEPT !.selectedFile = NoFile, !.error = "",
                                !.success = FALSE, !.processingResult = NoResult]
    /\ UNCHANGED <<storage, calls, wrap, chat, analysis, keyword>>

\* Where the process button is shown.
CanProcess ==
    /\ upload.selectedFile # NoFile
    /\ ~upload.isProcessing
    /\ IF upload.page = "Home" THEN ~upload.success
       ELSE upload.processingResult = NoResult /\ upload.sessionToken # NoToken

\* Home starts the upload-progress interval timer for a PDF.
StartsInterval(page, file) == page = "Home" /\ IsPDF(file)

\* processDocument up to its await; the request carries a client-made id,
\* except Home's PDF upload.  timers counts the interval timers that were
\* started and not cleared.
ProcessDocument(now) ==
    /\ upload.pc = "page"
    /\ CanProcess
    /\ (upload.sessionToken # NoToken
        /\ StartsInterval(upload.page, upload.selectedFile)) => upload.timers < MaxCount
    /\ upload' =
         IF upload.sessionToken = NoToken
         THEN [upload EXCEPT !.error = "Please select a file and ensure session is active"]
         ELSE [upload EXCEPT
                 !.isProcessing = TRUE, !.error = "",
                 !.uploadProgress = 0,
                 !.timers = IF StartsInterval(upload.page, upload.selectedFile) THEN @ + 1 ELSE @,
                 !.pending = [file |-> upload.selectedFile,
                              document_id |->
                                 IF upload.page = "Home" /\ IsPDF(upload.selectedFile)
                                 THEN Undefined
                                 ELSE ClientDocumentId(upload.selectedFile, now)]]
    /\ UNCHANGED <<storage, calls, wrap, chat, analysis, keyword>>

\* The interval's callback: setUploadProgress(prev => Math.min(prev + 10, 90)).
ProgressTick ==
    /\ upload.pc = "page"
    /\ upload.timers > 0
    /\ upload' = [upload EXCEPT !.uploadProgress = Min(@ + 10, 90)]
    /\ UNCHANGED <<storage, calls, wrap, chat, analysis, keyword>>

\* Bodies the backend may answer the pending request with.
UploadBodies ==
    IF upload.page = "Home" /\ IsPDF(upload.pending.file)
    THEN UploadPdfBodies
    ELSE StoreChunksBodies(upload.pending.document_id)

\* The record processDocument passes to setProcessingResult.
ProcessingResult(page, pending, body) ==
    [documentId |-> IF page = "Home" THEN Get(body, "document_id")
                    ELSE pending.document_id,
     sessionDocumentId |-> IF page = "Home" THEN Get(body, "session_document_id")
                           ELSE Or(Get(body, "session_document_id"), pending.document_id),
     chunksStored |-> Get(body, "chunks_stored"),
     processingMode |-> IF IsPDF(pending.file) THEN "enhanced_pdf_processing"
                        ELSE "text_processing"]

\* The backend has stored the document and answered; stored is the
\* backend's side: the uploaded file and the id its chunks are kept under.
ProcessingSucceeds(body) ==
    /\ upload.pc = "page"
    /\ upload.isProcessing
    /\ body \in UploadBodies
    /\ upload' = [upload EXCEPT
          !.isProcessing = FALSE, !.pending = NoResult, !.success = TRUE,
          !.uploadProgress = IF StartsInterval(upload.page, upload.pending.file) THEN 100 ELSE @,
          !.timers = IF StartsInterval(upload.page, upload.pending.file) THEN @ - 1 ELSE @,
          !.processingResult = ProcessingResult(upload.page, upload.pending, body),
          !.stored = [document_id |-> IF upload.pending.document_id = Undefined
                                      THEN body.document_id
                                      ELSE upload.pending.document_id,
                      document_name |-> upload.pending.file]]
    /\ UNCHANGED <<storage, calls, wrap, chat, analysis, keyword>>

\* Reading the file or the request failed: the catch block, then finally.
\* Either fetch threw (a network error: the statements after the await are
\* skipped) or it resolved with a response that is not ok.
ProcessingFails ==
    /\ upload.pc = "page"
    /\ upload.isProcessing
    /\ \E thrown \in BOOLEAN :
          upload' = [upload EXCEPT
             !.isProcessing = FALSE, !.pending = NoResult,
             !.error = "Processing failed",
             !.uploadProgress = IF StartsInterval(upload.page, upload.pending.file) /\ ~thrown THEN 100 ELSE @,
             !.timers = IF StartsInterval(upload.page, upload.pending.file) /\ ~thrown THEN @ - 1 ELSE @]
    /\ UNCHANGED <<storage, calls, wrap, chat, analysis, keyword>>

\* The record navigateToAnalysis writes.
CurrentDocument(processingResult, selectedFile) ==
    [document_id |-> processingResult.documentId,
     document_name |-> selectedFile,
     chunks_count |-> processingResult.chunksStored,
     processing_mode |-> processingResult.processingMode]

\* navigateToAnalysis, offered when success and processingResult are set; the
\* analysis shell mounts with its useState initial values.
NavigateToAnalysis ==
    /\ upload.pc = "page"
    /\ upload.success
    /\ upload.processingResult # NoResult
    /\ storage' = [storage EXCEPT !.current_document =
                      JsonStringify(CurrentDocument(upload.processingResult,
                                                    upload.selectedFile))]
    /\ upload' = [upload EXCEPT !.pc = "analysis", !.sessionId = NoToken,
                                !.documentInfo = NoDocument, !.loading = TRUE,
                                !.error = "", !.redirectScheduled = FALSE]
    /\ UNCHANGED <<calls, wrap, chat, analysis, keyword>>

\* RagAnalysis.initializeComponent: the try block's branches, then finally.
InitializeComponentSkipsDocumentCheck ==
    /\ upload.pc = "analysis"
    /\ upload' =
         IF storage.session_id = NoToken
         THEN [upload EXCEPT !.pc = "loaded", !.loading = FALSE,
                             !.redirectScheduled = TRUE,
                             !.error = "No session found. Please refresh the page."]
         ELSE [upload EXCEPT !.pc = "loaded", !.loading = FALSE,
                             !.sessionId = storage.session_id,
                             !.documentInfo = JsonParse(storage.current_document)]
    /\ UNCHANGED <<storage, calls, wrap, chat, analysis, keyword>>

InitializeComponent ==
    /\ upload.pc = "analysis"
    /\ upload' =
         IF storage.session_id = NoToken
         THEN [upload EXCEPT !.pc = "loaded", !.loading = FALSE,
                             !.redirectScheduled = TRUE,
                             !.error = "No session found. Please refresh the page."]
         ELSE IF storage.current_document = NoDocument
         THEN [upload EXCEPT !.pc = "loaded", !.loading = FALSE,
                             !.redirectScheduled = TRUE,
                             !.sessionId = storage.session_id,
                             !.error = "No document found. Please upload a document first."]
         ELSE [upload EXCEPT !.pc = "loaded", !.loading = FALSE,
                             !.sessionId = storage.session_id,
                             !.documentInfo = JsonParse(storage.current_document)]
    /\ UNCHANGED <<storage, calls, wrap, chat, analysis, keyword>>

\* The user leaves the analysis pages; the upload page mounts afresh later.
LeaveAnalysis ==
    /\ upload.pc = "loaded"
    /\ upload' = UploadIdle
    /\ UNCHANGED <<storage, calls, wrap, chat, analysis, keyword>>

\* A call of an analysis page is answered 401 and the handler's session
\* creation fails: the response interceptor has removed access_token, and
\* session_id stays.
AccessTokenRemoved ==
    /\ upload.pc = "loaded"
    /\ storage.access_token # NoToken
    /\ storage' = [storage EXCEPT !.access_token = NoToken]
    /\ UNCHANGED <<calls, wrap, chat, upload, analysis, keyword>>

AllUploadBodies ==
    UploadPdfBodies \cup UNION { StoreChunksBodies(ClientDocumentId(f, t)) :
                                   f \in Files, t \in Times }

NextUpload ==
    \/ \E page \in Pages : MountUpload(page)
    \/ \E o \in Outcomes("createSession") : SessionCreated(o)
    \/ \E file \in Files \cup InvalidFiles : HandleFileSelect(file)
    \/ RemoveFile
    \/ \E now \in Times : ProcessDocument(now)
    \/ \E body \in AllUploadBodies : ProcessingSucceeds(body)
    \/ ProcessingFails
    \/ ProgressTick
    \/ NavigateToAnalysis
    \/ InitializeComponent
    \/ LeaveAnalysis
    \/ AccessTokenRemoved

SpecUpload == Init /\ [][NextUpload]_vars

\* The analysis shell opened by its address (/analysis/...), whatever is in
\* storage: useState initial values of RagAnalysis.
EnterAnalysis ==
    /\ upload.pc = "off"
    /\ upload' = [UploadMounted("RagAnalysis") EXCEPT !.pc = "analysis"]
    /\ UNCHANGED <<storage, calls, wrap, chat, analysis, keyword>>

\* The shell renders the tabs and the child pages once loading is false and
\* there is no error.
ShowsTabs == upload.pc = "loaded" /\ ~upload.loading /\ upload.error = ""

NextShell == NextUpload \/ EnterAnalysis

SpecShell == Init /\ [][NextShell]_vars

\* DocumentUpload's documents list: the save effect and deleteDocument.
\* The record the save effect builds.
DocumentData(processingResult, selectedFile) ==
    [id |-> processingResult.documentId, name |-> selectedFile,
     sessionDocumentId |-> processingResult.sessionDocumentId]

DocumentIds(docs) == { docs[i].id : i \in 1..Len(docs) }

\* The effect with [processingResult, success, selectedFile, currentUser,
\* uploadedDocuments] as dependencies.  Each run hands setUploadedDocuments a
\* new array, which is a changed dependency: the effect is due again for as
\* long as its condition holds.
SaveDocument ==
    /\ upload.pc = "page"
    /\ upload.page = "DocumentUpload"
    /\ upload.processingResult # NoResult /\ upload.success
    /\ upload.currentUser # NoResult
    /\ Len(upload.uploadedDocuments) < MaxDocuments
    /\ LET updatedDocs == Append(upload.uploadedDocuments,
                                 DocumentData(upload.processingResult,
                                              upload.selectedFile))
       IN /\ upload' = [upload EXCEPT !.uploadedDocuments = updatedDocs]
          /\ storage' = [storage EXCEPT !.documents = updatedDocs]
    /\ UNCHANGED <<calls, wrap, chat, analysis, keyword>>

\* deleteDocument, from a row of the list:
\* uploadedDocuments.filter(doc => doc.id !== docId)
DeleteDocument(docId) ==
    /\ upload.pc = "page"
    /\ upload.page = "DocumentUpload"
    /\ upload.currentUser # NoResult
    /\ docId \in DocumentIds(upload.uploadedDocuments)
    /\ LET updatedDocs == SelectSeq(upload.uploadedDocuments,
                                    LAMBDA doc : doc.id # docId)
       IN /\ upload' = [upload EXCEPT !.uploadedDocuments = updatedDocs]
          /\ storage' = [storage EXCEPT !.documents = updatedDocs]
    /\ UNCHANGED <<calls, wrap, chat, analysis, keyword>>

\* Date.now() has moved on since any earlier processDocument: the id made
\* for this one is in no record yet.
ProcessNewDocument(now) ==
    /\ upload.pc = "page"
    /\ upload.selectedFile # NoFile
    /\ ClientDocumentId(upload.selectedFile, now) \notin DocumentIds(storage.documents)
    /\ ProcessDocument(now)

NextDocuments ==
    \/ MountUpload("DocumentUpload")
    \/ \E o \in Outcomes("createSession") : SessionCreated(o)
    \/ \E file \in Files \cup InvalidFiles : HandleFileSelect(file)
    \/ RemoveFile
    \/ \E now \in Times : ProcessNewDocument(now)
    \/ \E body \in AllUploadBodies : ProcessingSucceeds(body)
    \/ ProcessingFails
    \/ SaveDocument
    \/ \E f \in Files, t \in Times : DeleteDocument(ClientDocumentId(f, t))
    \/ NavigateToAnalysis
    \/ InitializeComponent
    \/ LeaveAnalysis

SpecDocuments == Init /\ [][NextDocuments]_vars

\* ----------------------------------------------------------- analysis pages
\* RiskAnalysis (pages/RiskAnalysis.jsx), DocumentSummarization
\* (src/unnamed/part_002) and NegotiationAssistant (src/unnamed/part_003)
\* over the client above.  The page's request is one call of the client; a
\* page that is left while its request is outstanding leaves the call running
\* (nothing aborts it), and what it settles with is dropped.  One request of
\* the page is followed at a time: a page left with its request outstanding
\* starts its next request once that one has settled.
AnalysisPages == {"RiskAnalysis", "DocumentSummarization", "NegotiationAssistant"}

AnalysisFn(page) ==
    CASE page = "RiskAnalysis" -> "runRiskAnalysis"
      [] page = "DocumentSummarization" -> "runDocumentSummary"
      [] page = "NegotiationAssistant" -> "runNegotiationAssistant"

\* response.error || '<literal>'
PageGenericMessage(page) ==
    CASE page = "RiskAnalysis" -> "Risk analysis failed"
      [] page = "DocumentSummarization" -> "Document summary failed"
      [] page = "NegotiationAssistant" -> "Email generation failed"

\* documentInfo?.document_id || documentInfo?.document_name
DocId(documentInfo) ==
    Or(Get(documentInfo, "document_id"), Get(documentInfo, "document_name"))

PageCall == 1

\* useState initial values of a mounted page.
AnalysisMounted(page, documentInfo) ==
    [pc |-> "mounted", page |-> page, documentInfo |-> documentInfo,
     loading |-> FALSE, analysis |-> NoResult, error |-> ""]

\* runAnalysis up to its await.
RunAnalysis(a) ==
    IF ~Truthy(DocId(a.documentInfo))
    THEN /\ analysis' = [a EXCEPT !.error =
              "No document information available. Please upload a document first."]
         /\ calls' = calls
    ELSE /\ calls[PageCall].st = "idle"
         /\ analysis' = [a EXCEPT !.loading = TRUE, !.error = ""]
         /\ calls' = [calls EXCEPT ![PageCall] = Invoked(AnalysisFn(a.page), NoToken)]

\* The page is rendered with the documentInfo the analysis shell passes (a
\* parsed current_document with an id, with a name only, with neither, or
\* null); its effect runs runAnalysis when documentInfo is set.
MountAnalysis(page, documentInfo) ==
    /\ analysis.pc = "off"
    /\ IF documentInfo # NoDocument
       THEN RunAnalysis(AnalysisMounted(page, documentInfo))
       ELSE analysis' = AnalysisMounted(page, documentInfo) /\ calls' = calls
    /\ UNCHANGED <<storage, wrap, chat, upload, keyword>>

\* The page's button: onClick={runAnalysis} disabled={loading}.
ClickRunAnalysis ==
    /\ analysis.pc = "mounted"
    /\ ~analysis.loading
    /\ RunAnalysis(analysis)
    /\ UNCHANGED <<storage, wrap, chat, upload, keyword>>

\* What the client's call settled with, as the wrapper function sees it.
OutcomesOf(fn, out) ==
    IF out.how = "resolved"
    THEN { [ok |-> TRUE, body |-> b, err |-> NoError] : b \in Bodies(fn) }
    ELSE { [ok |-> FALSE, body |-> NoBody,
            err |-> [status |-> out.status, detail |-> out.detail,
                     message |-> out.message]] }

\* runAnalysis after its await: the try block's branches, then finally.
RunAnalysisDone(a, response) ==
    IF response.success
    THEN [a EXCEPT !.analysis = response.data, !.loading = FALSE]
    ELSE [a EXCEPT !.error = Or(Get(response, "error"), PageGenericMessage(a.page)),
                   !.loading = FALSE]

\* The wrapper function returns to the page that awaits it.
AnalysisCallSettles ==
    /\ analysis.pc = "mounted"
    /\ analysis.loading
    /\ Settled(PageCall)
    /\ \E o \in OutcomesOf(AnalysisFn(analysis.page), calls[PageCall].out) :
          analysis' = RunAnalysisDone(analysis,
                                      Wrapper(AnalysisFn(analysis.page), o).value)
    /\ calls' = [calls EXCEPT ![PageCall] = IdleCall]
    /\ UNCHANGED <<storage, wrap, chat, upload, keyword>>

\* The user leaves the page; a request it started stays outstanding.
UnmountAnalysis ==
    /\ analysis.pc = "mounted"
    /\ analysis' = AnalysisIdle
    /\ UNCHANGED <<storage, calls, wrap, chat, upload, keyword>>

\* The request of a page that was left settles: its state updates go nowhere.
StaleCallSettles ==
    /\ IF analysis.pc = "off" THEN TRUE ELSE ~analysis.loading
    /\ Settled(PageCall)
    /\ calls' = [calls EXCEPT ![PageCall] = IdleCall]
    /\ UNCHANGED <<storage, wrap, chat, upload, analysis, keyword>>

NextAnalysis ==
    \/ \E p \in AnalysisPages,
          d \in DocumentInfos \cup {[uploadedAt |-> "t1"], NoDocument} : MountAnalysis(p, d)
    \/ ClickRunAnalysis
    \/ AnalysisCallSettles
    \/ UnmountAnalysis
    \/ StaleCallSettles
    \/ \E r \in Responses([cs |-> TRUE]) \cup Responses([cs |-> FALSE]) :
          RespondRace(PageCall, r)
    \/ ResponseOk(PageCall)
    \/ Response401(PageCall)
    \/ ResponseError(PageCall)

SpecAnalysis == Init /\ [][NextAnalysis]_vars

RespondAnalysis ==
    \E r \in Responses([cs |-> TRUE]) \cup Responses([cs |-> FALSE]) :
       RespondRace(PageCall, r)

\* Every request is answered or times out, the event loop runs every handler
\* whose response has arrived, and a settled call returns to its page.
FairAnalysis ==
    SpecAnalysis /\ WF_vars(AnalysisCallSettles)
                 /\ WF_vars(RespondAnalysis) /\ WF_vars(Handle(PageCall))

\* --------------------------------------- chat page through the client
\* sendMessage of the chat page (variant without document tokens) with its
\* request followed through the client: chatbot.chat -> chatWithDocument ->
\* api.post('/chatbot/chat').  A sendMessage the guard rejects is a step that
\* changes nothing.
SendMessageCall(text) ==
    /\ ChatRendered
    /\ chat.pc = "done"
    /\ chat.documentInfo # NoDocument
    /\ Len(chat.messages) + 2 <= MaxMessages
    /\ calls[PageCall].st = "idle"
    /\ chat' = SendMessageUpTo(chat, text)
    /\ calls' = IF chat' = chat THEN calls
                ELSE [calls EXCEPT ![PageCall] = Invoked(ChatFn(chat.variant), NoToken)]
    /\ UNCHANGED <<storage, wrap, upload, analysis, keyword>>

\* The client's call has settled and chatWithDocument returns to sendMessage.
ChatCallReturns ==
    /\ chat.pc = "done"
    /\ chat.isLoading
    /\ Settled(PageCall)
    /\ \E o \in OutcomesOf(ChatFn(chat.variant), calls[PageCall].out) :
          chat' = SendMessageDone(chat, Wrapper(ChatFn(chat.variant), o).value)
    /\ calls' = [calls EXCEPT ![PageCall] = IdleCall]
    /\ UNCHANGED <<storage, wrap, upload, analysis, keyword>>

NextSend ==
    \/ \E d \in DocumentInfos : MountChatBot("simple", d)
    \/ \E o \in Outcomes("getChatSuggestions") : SuggestionsCallSettles(o)
    \/ \E t \in Texts : SendMessageCall(t)
    \/ ChatCallReturns
    \/ ClearConversation
    \/ RespondAnalysis
    \/ ResponseOk(PageCall)
    \/ Response401(PageCall)
    \/ ResponseError(PageCall)

SpecSend == Init /\ [][NextSend]_vars

\* Every request is answered or times out, the event loop runs every handler
\* whose response has arrived, and a settled call returns to sendMessage.
FairSend ==
    SpecSend /\ WF_vars(ChatCallReturns)
             /\ WF_vars(RespondAnalysis) /\ WF_vars(Handle(PageCall))

\* ------------------------------------------------------- App.jsx: routes
\* What a guarded route renders: its children, or a redirect.
ProtectedRouteUnguarded(st) == "children"

ProtectedRoute(st) ==
    IF st.currentUser # NoDocument THEN "children" ELSE "/login"

PublicRoute(st) ==
    IF st.currentUser # NoDocument THEN "/document-upload" ELSE "children"

\* The address /document-upload or /analysis/... is opened: the page mounts if
\* ProtectedRoute renders its children; the redirect to /login changes nothing
\* here.
OpenProtectedRoute(page) ==
    /\ ProtectedRoute(storage) = "children"
    /\ IF page = "RagAnalysis" THEN EnterAnalysis ELSE MountUpload(page)

\* DocumentUpload.handleLogout, then navigate('/login').
HandleLogout ==
    /\ upload.pc = "page"
    /\ upload.page = "DocumentUpload"
    /\ storage' = [storage EXCEPT !.currentUser = NoDocument,
                                  !.access_token = NoToken, !.session_id = NoToken]
    /\ upload' = UploadIdle
    /\ UNCHANGED <<calls, wrap, chat, analysis, keyword>>

\* The Login page, which PublicRoute renders for a logged-out user, stores
\* currentUser.
Login ==
    /\ upload.pc = "off"
    /\ PublicRoute(storage) = "children"
    /\ storage' = [storage EXCEPT !.currentUser = CurrentUser]
    /\ UNCHANGED <<calls, wrap, chat, upload, analysis, keyword>>

NextRoutes ==
    \/ \E page \in {"DocumentUpload", "RagAnalysis"} : OpenProtectedRoute(page)
    \/ \E o \in Outcomes("createSession") : SessionCreated(o)
    \/ \E file \in Files \cup InvalidFiles : HandleFileSelect(file)
    \/ RemoveFile
    \/ \E now \in Times : ProcessDocument(now)
    \/ \E body \in AllUploadBodies : ProcessingSucceeds(body)
    \/ ProcessingFails
    \/ NavigateToAnalysis
    \/ InitializeComponent
    \/ LeaveAnalysis
    \/ HandleLogout
    \/ Login

SpecRoutes == Init /\ [][NextRoutes]_vars

\* ------------------------------------------- chat page, keyword dispatch
\* The snapshot of pages/ChatBot.jsx whose sendMessage answers through
\* simulateChatResponse: the question's text picks one of the analysis
\* wrapper functions.  A text is the sequence of its characters.
\* question.toLowerCase()
ToLowerCase(text) ==
    LET UpperCase == <<"A", "B", "C", "D", "E", "F", "G", "H", "I", "J", "K", "L", "M",
                       "N", "O", "P", "Q", "R", "S", "T", "U", "V", "W", "X", "Y", "Z">>
        LowerCase == <<"a", "b", "c", "d", "e", "f", "g", "h", "i", "j", "k", "l", "m",
                       "n", "o", "p", "q", "r", "s", "t", "u", "v", "w", "x", "y", "z">>
    IN [i \in 1..Len(text) |->
          IF \E j \in 1..Len(UpperCase) : UpperCase[j] = text[i]
          THEN LowerCase[CHOOSE j \in 1..Len(UpperCase) : UpperCase[j] = text[i]]
          ELSE text[i]]

\* text.includes(word)
Includes(text, word) ==
    \E i \in 1..(Len(text) - Len(word) + 1) : SubSeq(text, i, i + Len(word) - 1) = word

\* The literals of the three conditions, in the order of the if / else if chain.
RiskWords == { <<"r", "i", "s", "k">>, <<"d", "a", "n", "g", "e", "r">>, <<"p", "r", "o", "b", "l", "e", "m">> }
SummaryWords == { <<"s", "u", "m", "m", "a", "r", "y">>, <<"s", "u", "m", "m", "a", "r", "i", "z", "e">>, <<"o", "v", "e", "r", "v", "i", "e", "w">> }
NegotiationWords == { <<"n", "e", "g", "o", "t", "i", "a", "t">>, <<"t", "e", "r", "m", "s">>, <<"c", "l", "a", "u", "s", "e">> }

\* The questions asked:
\*   "What are the RISKS?"
\*   "Any Danger in the terms"
\*   "Summarize problem clauses"
\*   "Overview of terms"
\*   "SUMMARY please"
\*   "Can we reNegotiate?"
\*   "Explain Clause 4"
\*   "Who signs?"
\*   "Determine the fee"
KeywordQuestions ==
    { <<"W", "h", "a", "t", " ", "a", "r", "e", " ", "t", "h", "e", " ", "R", "I", "S", "K", "S", "?">>,
      <<"A", "n", "y", " ", "D", "a", "n", "g", "e", "r", " ", "i", "n", " ", "t", "h", "e", " ", "t", "e", "r", "m", "s">>,
      <<"S", "u", "m", "m", "a", "r", "i", "z", "e", " ", "p", "r", "o", "b", "l", "e", "m", " ", "c", "l", "a", "u", "s", "e", "s">>,
      <<"O", "v", "e", "r", "v", "i", "e", "w", " ", "o", "f", " ", "t", "e", "r", "m", "s">>,
      <<"S", "U", "M", "M", "A", "R", "Y", " ", "p", "l", "e", "a", "s", "e">>,
      <<"C", "a", "n", " ", "w", "e", " ", "r", "e", "N", "e", "g", "o", "t", "i", "a", "t", "e", "?">>,
      <<"E", "x", "p", "l", "a", "i", "n", " ", "C", "l", "a", "u", "s", "e", " ", "4">>,
      <<"W", "h", "o", " ", "s", "i", "g", "n", "s", "?">>,
      <<"D", "e", "t", "e", "r", "m", "i", "n", "e", " ", "t", "h", "e", " ", "f", "e", "e">> }

\* !messageText.trim()
IsBlank(text) == \A i \in 1..Len(text) : text[i] = " "

EndpointForSummaryFirst(question) ==
    LET questionLower == ToLowerCase(question) IN
    IF \E w \in SummaryWords : Includes(questionLower, w)
        THEN [fn |-> "runDocumentSummary", type |-> "summary"]
    ELSE IF \E w \in RiskWords : Includes(questionLower, w)
        THEN [fn |-> "runRiskAnalysis", type |-> "risk"]
    ELSE IF \E w \in NegotiationWords : Includes(questionLower, w)
        THEN [fn |-> "runNegotiationAssistant", type |-> "negotiation"]
    ELSE [fn |-> "runDocumentSummary", type |-> "general"]

\* simulateChatResponse: the branch taken and the function it awaits.
EndpointFor(question) ==
    LET questionLower == ToLowerCase(question) IN
    IF \E w \in RiskWords : Includes(questionLower, w)
        THEN [fn |-> "runRiskAnalysis", type |-> "risk"]
    ELSE IF \E w \in SummaryWords : Includes(questionLower, w)
        THEN [fn |-> "runDocumentSummary", type |-> "summary"]
    ELSE IF \E w \in NegotiationWords : Includes(questionLower, w)
        THEN [fn |-> "runNegotiationAssistant", type |-> "negotiation"]
    ELSE [fn |-> "runDocumentSummary", type |-> "general"]

\* confidence_score of each branch's reply.
ConfidenceOf(type) ==
    CASE type = "risk" -> "0.9"
      [] type = "summary" -> "0.95"
      [] type = "negotiation" -> "0.88"
      [] type = "general" -> "0.75"

\* simulateChatResponse after its await: the branch's reply if the envelope
\* has success true, the fallback reply otherwise.
SimulateChatResponseDonePassesFailure(question, type, response) ==
    IF response.success
    THEN [success |-> TRUE, response |-> <<type, response.data>>, sources |-> <<type>>,
          confidence_score |-> ConfidenceOf(type), conversation_id |-> <<"conv", type>>]
    ELSE [success |-> FALSE, error |-> response.error]

SimulateChatResponseDone(question, type, response) ==
    IF response.success
    THEN [success |-> TRUE, response |-> <<type, response.data>>, sources |-> <<type>>,
          confidence_score |-> ConfidenceOf(type), conversation_id |-> <<"conv", type>>]
    ELSE [success |-> TRUE, response |-> <<"fallback", question>>, sources |-> <<>>,
          confidence_score |-> "0.6", conversation_id |-> <<"conv", "fallback">>]

\* useState initial values, then initializeChatBot, which awaits nothing.
KeywordMounted(documentInfo) ==
    LET fresh == [pc |-> "ready", documentInfo |-> documentInfo, sessionId |-> NoToken,
                  error |-> "", messages |-> <<>>, isLoading |-> FALSE,
                  showSuggestions |-> TRUE, question |-> <<>>, invoked |-> <<>>,
                  response |-> NoResult, reply |-> NoResult]
    IN IF storage.session_id = NoToken
       THEN [fresh EXCEPT !.error = "No session found. Please refresh the page."]
       ELSE IF documentInfo = NoDocument
       THEN [fresh EXCEPT !.sessionId = storage.session_id,
                          !.error = "No document loaded. Please upload a document first."]
       ELSE [fresh EXCEPT !.sessionId = storage.session_id,
                          !.messages = <<WelcomeMessage>>]

MountKeywordChat(documentInfo) ==
    /\ keyword.pc = "off"
    /\ keyword' = KeywordMounted(documentInfo)
    /\ UNCHANGED <<storage, calls, wrap, chat, upload, analysis>>

\* sendMessage, then simulateChatResponse up to its await.  invoked lists
\* the wrapper functions called for the question.
KeywordSendMessage(text) ==
    /\ keyword.pc = "ready"
    /\ keyword.error = ""
    /\ keyword.documentInfo # NoDocument
    /\ ~IsBlank(text) /\ ~keyword.isLoading
    /\ Len(keyword.messages) + 2 <= MaxMessages
    /\ keyword' = [keyword EXCEPT
                     !.pc = "awaiting",
                     !.messages = Append(@, [role |-> "user", content |-> text,
                                             isError |-> FALSE]),
                     !.isLoading = TRUE, !.error = "", !.showSuggestions = FALSE,
                     !.question = text,
                     !.invoked = <<EndpointFor(text).fn>>,
                     !.response = NoResult, !.reply = NoResult]
    /\ UNCHANGED <<storage, calls, wrap, chat, upload, analysis>>

\* The wrapper function returns; simulateChatResponse returns its reply and
\* sendMessage appends it, or the error bubble if the reply has success false.
KeywordCallSettles(outcome) ==
    /\ keyword.pc = "awaiting"
    /\ LET endpoint == EndpointFor(keyword.question)
           response == Wrapper(endpoint.fn, outcome).value
           reply == SimulateChatResponseDone(keyword.question, endpoint.type, response)
       IN keyword' = [keyword EXCEPT
                        !.pc = "ready",
                        !.messages = Append(@,
                            IF reply.success
                            THEN [role |-> "assistant", content |-> reply.response,
                                  isError |-> FALSE]
                            ELSE [role |-> "assistant", content |-> "error occurred",
                                  isError |-> TRUE]),
                        !.isLoading = FALSE,
                        !.response = response,
                        !.reply = reply]
    /\ UNCHANGED <<storage, calls, wrap, chat, upload, analysis>>

KeywordClearConversation ==
    /\ keyword.pc # "off"
    /\ keyword.error = ""
    /\ keyword' = [keyword EXCEPT !.messages = <<ClearedMessage>>,
                                  !.showSuggestions = TRUE, !.error = ""]
    /\ UNCHANGED <<storage, calls, wrap, chat, upload, analysis>>

UnmountKeywordChat ==
    /\ keyword.pc = "ready"
    /\ keyword' = KeywordIdle
    /\ UNCHANGED <<storage, calls, wrap, chat, upload, analysis>>

NextKeyword ==
    \/ \E d \in DocumentInfos \cup {NoDocument} : MountKeywordChat(d)
    \/ \E t \in KeywordQuestions \cup { <<" ", " ">> } : KeywordSendMessage(t)
    \/ \E o \in Outcomes("runDocumentSummary") : KeywordCallSettles(o)
    \/ KeywordClearConversation
    \/ UnmountKeywordChat

SpecKeyword == Init /\ [][NextKeyword]_vars

\* -------------------------------------------------------------- properties
Axios(c) == calls[c].kind # "fetchCreateSession"

\* C1: a call whose first response is 401 issues exactly one create-session
\* request and exactly one replay; a 401 on the replay is final (no further
\* session creation, no further replay).  A call has handled a 401 exactly
\* when nCreate > 0.
C1_OneRefreshOneReplay ==
    \A c \in Calls : (Axios(c) /\ calls[c].nCreate > 0) =>
        /\ calls[c].nCreate = 1
        /\ calls[c].nReplay <= 1

\* C2: every call through the client eventually settles, whatever the backend
\* answers.
C2_EveryCallSettles ==
    \A c \in Calls : InFlight(c) ~> Settled(c)

\* C3 (as claimed): a request that passes the request interceptor while
\* access_token is absent leaves without an Authorization header.
C3_NoTokenNoHeader ==
    \A c \in Calls : (Axios(c) /\ InFlight(c) /\ calls[c].cur.tok = NoToken) =>
        calls[c].cur.auth = NoToken

\* C3 (amended): with access_token absent the interceptor adds nothing: the
\* request leaves with exactly the header its caller's config carried, which
\* is the document token for the first request of a document-token function
\* and no header for every other request, the 401 handler's create-session
\* request included.
C3_InterceptorAddsNothing ==
    \A c \in Calls : (Axios(c) /\ InFlight(c) /\ calls[c].cur.tok = NoToken) =>
        /\ calls[c].cur.auth = calls[c].cur.cfg
        /\ calls[c].cur.auth =
              (IF calls[c].kind = "token" /\ ~calls[c].cur.cs /\ ~calls[c].cur.replay
               THEN DocumentToken ELSE NoToken)

\* A document-token call whose 401 handler has sent its create-session
\* request with no token in storage.
C3_Witness ==
    \E c \in Calls :
        /\ calls[c].kind = "token" /\ InFlight(c)
        /\ calls[c].cur.cs /\ calls[c].stack # <<>>
        /\ calls[c].cur.tok = NoToken

CreateSessionKinds == {"createSession", "fetchCreateSession"}

\* C9: access_token and session_id are written only by a createSession that
\* has received a successful create-session response, both from that
\* response, and that is the pair createSession returns; a createSession that
\* fails rejects with an Error and the step writes nothing.
C9_CreateSessionWrites ==
    [][ /\ (\/ storage'.session_id # storage.session_id
            \/ (storage'.access_token # storage.access_token
                  /\ storage'.access_token # NoToken))
           => \E c \in Calls :
                 /\ calls[c].st = "recv" /\ calls[c].cur.cs /\ calls[c].resp.status = 200
                 /\ calls'[c] # calls[c]
                 /\ storage'.access_token = calls[c].resp.token
                 /\ storage'.session_id = calls[c].resp.session
        /\ \A c \in Calls : (calls[c].kind \in CreateSessionKinds /\ InFlight(c)) =>
              /\ calls'[c].st = "resolved" =>
                    /\ calls[c].resp.status = 200
                    /\ calls'[c].out.token = storage'.access_token
                    /\ calls'[c].out.session = storage'.session_id
                    /\ calls'[c].out.token # NoToken
              /\ calls'[c].st = "rejected" =>
                    /\ storage' = storage
                    /\ calls'[c].out.status = NoStatus
                    /\ Truthy(calls'[c].out.message)
      ]_vars

\* One createSession has resolved and another has rejected.
C9_Witness ==
    \E c, d \in Calls :
        /\ calls[c].kind \in CreateSessionKinds /\ calls[c].st = "resolved"
        /\ calls[d].kind = "createSession" /\ calls[d].st = "rejected"

\* C10: a response that fails with anything but 401 makes the response
\* interceptor reject with that error: no create-session request, no replay,
\* access_token and session_id untouched.
C10_OtherErrorsRejectOnly ==
    [][ \A c \in Calls :
          (/\ Axios(c) /\ calls[c].st = "recv"
           /\ calls[c].resp.status \notin {200, 401}
           /\ calls'[c] # calls[c])
          => /\ storage' = storage
             /\ calls'[c].nCreate = calls[c].nCreate
             /\ calls'[c].nReplay = calls[c].nReplay
             /\ calls'[c].st = "rejected"
             /\ ~calls[c].cur.cs =>
                   /\ calls'[c].out.status = calls[c].resp.status
                   /\ calls'[c].out.detail = calls[c].resp.detail
                   /\ calls'[c].out.message = calls[c].resp.message
      ]_vars

\* A call rejected with a non-401 failure while a session stays in storage.
C10_Witness ==
    \E c \in Calls :
        /\ calls[c].kind = "plain" /\ calls[c].st = "rejected"
        /\ calls[c].out.status \in {500, NetworkFailure}
        /\ calls[c].nCreate = 0
        /\ storage.access_token # NoToken /\ storage.session_id # NoToken

Returned == wrap.pc = "returned"
FieldNames(fn) == UNION { DOMAIN b : b \in Bodies(fn) }
DataFns == PlainFns \cup MessageFns \cup {"chatWithDocument", "chatWithDocument_token"}
SuggestionFns == {"getChatSuggestions", "getChatSuggestions_token"}
ExplainFns == {"explainLegalClause", "explainLegalClause_token"}

ErrorOf(ret) == IF ret.how = "rejected" THEN ret.value.message ELSE ret.value.error

\* C5 (as claimed): on failure the error is the body's detail when the body
\* has one, else the function's generic message.
C5_DetailOrGeneric ==
    (Returned /\ ~wrap.outcome.ok) =>
        ErrorOf(wrap.ret) =
            (IF wrap.outcome.err.detail # Undefined THEN wrap.outcome.err.detail
             ELSE GenericMessage(wrap.fn))

\* C5 (amended): on failure the error is the body's detail when the body has
\* a non-empty one; otherwise it is the error's own message for
\* runRiskAnalysis, runNegotiationAssistant, runDocumentSummary,
\* chatWithDocument and apiCall, and the function's generic message for the
\* other functions.
C5_DetailOrMessageOrGeneric ==
    (Returned /\ ~wrap.outcome.ok) =>
        LET err == wrap.outcome.err
            fn == wrap.fn
        IN
        /\ Truthy(err.detail) => ErrorOf(wrap.ret) = err.detail
        /\ (~Truthy(err.detail) /\ fn \in MessageFns
                \cup {"chatWithDocument", "chatWithDocument_token", "apiCall"})
              => ErrorOf(wrap.ret) = err.message
        /\ (~Truthy(err.detail) /\ fn = "storeDocumentChunks")
              => ErrorOf(wrap.ret) = "Failed to store document"
        /\ (~Truthy(err.detail) /\ fn \notin MessageFns
                \cup {"chatWithDocument", "chatWithDocument_token", "apiCall"})
              => ErrorOf(wrap.ret) = GenericMessage(fn)

\* runRiskAnalysis has failed with a 500 whose body has no detail.
C5_Witness ==
    /\ Returned /\ ~wrap.outcome.ok
    /\ wrap.fn = "runRiskAnalysis"
    /\ wrap.outcome.err.status = 500
    /\ wrap.outcome.err.detail = Undefined
    /\ wrap.ret.value.error = "Request failed with status code 500"

\* C6 (as claimed): every exported function resolves, on success and on
\* failure, to {success, data | error}; none rejects.
C6_UniformEnvelope ==
    Returned =>
        LET v == wrap.ret.value IN
        /\ wrap.ret.how = "resolved"
        /\ "success" \in DOMAIN v
        /\ v.success \in BOOLEAN
        /\ v.success => "data" \in DOMAIN v
        /\ ~v.success => "error" \in DOMAIN v

\* C6 (amended): every exported function but createSession and apiCall
\* resolves, on success and on failure, to an object whose success tells
\* whether the backend call succeeded; a failure carries a non-empty error
\* and no data, a success carries no error, and data only for the plain
\* wrappers and chatWithDocument.  createSession and apiCall resolve to the
\* bare pair or body and reject with an Error when the call fails.
C6_EnvelopeOrThrow ==
    Returned =>
        LET v == wrap.ret.value
            ok == wrap.outcome.ok
            fn == wrap.fn
        IN
        IF Throws(fn)
        THEN /\ ok => (wrap.ret.how = "resolved" /\ "success" \notin DOMAIN v)
             /\ ~ok => (wrap.ret.how = "rejected" /\ Truthy(v.message))
        ELSE /\ wrap.ret.how = "resolved"
             /\ "success" \in DOMAIN v
             /\ v.success = ok
             /\ ~ok => ("error" \in DOMAIN v /\ Truthy(v.error) /\ "data" \notin DOMAIN v)
             /\ ok => ("error" \notin DOMAIN v /\ ("data" \in DOMAIN v <=> fn \in DataFns))

\* storeDocumentChunks has caught a transport failure, and so resolved.
C6_Witness ==
    /\ Returned /\ ~wrap.outcome.ok
    /\ wrap.fn = "storeDocumentChunks"
    /\ wrap.outcome.err.status = NetworkFailure
    /\ wrap.ret.how = "resolved"
    /\ wrap.ret.value.success = FALSE

\* C7: when the call of the suggestions endpoint has failed, the chat page's
\* suggestion list is exactly the five default questions, in their order.
C7_FiveDefaultsOnFailure ==
    (chat.pc = "done" /\ chat.suggestionsCall = "failed") =>
        /\ chat.suggestions = DefaultSuggestions
        /\ Len(chat.suggestions) = 5
        /\ chat.suggestions[1] = "What are the key terms in this document?"
        /\ chat.suggestions[5] = "What are the termination conditions?"

\* The token variant's suggestions call was rejected for a network failure
\* after the document token had been issued.
C7_Witness ==
    /\ chat.pc = "done"
    /\ chat.variant = "token"
    /\ chat.suggestionsCall = "failed"
    /\ chat.outcome.err.status = NetworkFailure
    /\ chat.suggestions = DefaultSuggestions

\* C8: once the analysis shell has read current_document back after an
\* upload and navigateToAnalysis, the record has the document_id the
\* uploaded document's chunks are stored under and the uploaded file's name.
C8_CurrentDocumentRoundTrips ==
    (upload.pc = "loaded" /\ upload.documentInfo # NoDocument) =>
        /\ Get(upload.documentInfo, "document_id") = upload.stored.document_id
        /\ Get(upload.documentInfo, "document_name") = upload.stored.document_name

\* C11: a 401 handler always issues a create-session request of its own,
\* also while the other call's create-session request is outstanding or
\* has just stored a session: two calls that both receive 401 issue two.
C11_EachHandlerCreatesItsOwn ==
    [][ \A c \in Calls :
          (/\ Axios(c) /\ calls[c].st = "recv" /\ Is401(calls[c].resp.status)
           /\ calls'[c] # calls[c])
          => /\ calls'[c].st = "sent"
             /\ calls'[c].cur.cs
             /\ ~calls'[c].cur.replay
             /\ calls'[c].nCreate = Bump(calls[c].nCreate)
             /\ Len(calls'[c].stack) = Len(calls[c].stack) + 1
             /\ \A d \in Calls \ {c} : calls'[d] = calls[d]
      ]_vars

\* Both calls have received 401 and the create-session requests of both
\* handlers are outstanding at once.
C11_Witness ==
    \A c \in Calls :
        /\ InFlight(c) /\ calls[c].cur.cs
        /\ Len(calls[c].stack) = 1 /\ ~calls[c].stack[1].cs
        /\ calls[c].nCreate = 1

\* C12: a replay is sent only in the step in which the handler's own
\* createSession has received its session; its bearer is the token of that
\* response, just stored, and never the token the rejected request was
\* sent with.
C12_ReplayCarriesNewToken ==
    [][ \A c \in Calls :
          (/\ Axios(c) /\ calls'[c] # calls[c]
           /\ calls'[c].st = "sent" /\ calls'[c].cur.replay)
          => /\ calls[c].st = "recv"
             /\ calls[c].cur.cs
             /\ calls[c].resp.status = 200
             /\ calls[c].stack # <<>>
             /\ calls'[c].cur.auth = calls[c].resp.token
             /\ calls'[c].cur.auth = storage'.access_token
             /\ calls'[c].cur.auth # NoToken
             /\ calls'[c].cur.auth # Top(calls[c].stack).tok
      ]_vars

\* A replay is outstanding with a token other than the one in storage when
\* the calls were invoked, while the other call's handler awaits its own
\* session.
C12_Witness ==
    \E c, d \in Calls :
        /\ InFlight(c) /\ calls[c].cur.replay /\ calls[c].cur.auth # NoToken
        /\ InFlight(d) /\ calls[d].cur.cs /\ calls[d].stack # <<>>
        /\ calls[d].stack[1].tok # NoToken
        /\ calls[d].stack[1].tok # calls[c].cur.auth

\* C13: when the createSession called by a 401 handler fails, the call is
\* rejected with the error of the request first answered 401, no replay is
\* sent, and access_token is absent from storage.
C13_FailedRefreshRejectsOriginal ==
    [][ \A c \in Calls :
          (/\ calls[c].kind \in {"plain", "token"}
           /\ calls[c].st = "recv" /\ calls[c].cur.cs /\ calls[c].stack # <<>>
           /\ calls[c].resp.status \notin {200, 401}
           /\ calls'[c] # calls[c])
          => /\ calls'[c].st = "rejected"
             /\ calls'[c].nReplay = calls[c].nReplay
             /\ calls'[c].out = Rejected(calls[c].stack[1].err)
             /\ calls'[c].out.status = 401
             /\ storage'.access_token = NoToken
      ]_vars

\* C14: the request of a document-token function (chatWithDocument,
\* getChatSuggestions, explainLegalClause of the first snapshot) leaves with
\* the caller's documentToken as its bearer credential, whatever storage
\* holds.
C14_DocumentTokenIsBearer ==
    \A c \in Calls :
        (calls[c].kind = "token" /\ InFlight(c) /\ ~calls[c].cur.cs /\ ~calls[c].cur.replay)
        => calls[c].cur.auth = DocumentToken

\* C15: Home's initializeSession asks for a session exactly when
\* access_token or session_id is missing from storage at mount; with both
\* present it writes nothing and takes the stored pair as it is; and while
\* Home is mounted a session is stored only by the createSession it asked for.
C15_SessionOnlyWhenMissing ==
    [][ /\ (upload.pc = "off" /\ upload'.pc = "page" /\ upload'.page = "Home")
           => /\ upload'.creating <=>
                    (storage.access_token = NoToken \/ storage.session_id = NoToken)
              /\ storage' = storage
              /\ ~upload'.creating =>
                    /\ upload'.sessionToken = storage.access_token
                    /\ upload'.sessionId = storage.session_id
        /\ (/\ upload.pc = "page" /\ upload.page = "Home"
            /\ storage'.session_id # storage.session_id)
           => upload.creating /\ ~upload'.creating
      ]_vars

\* Home is mounted with session_id still stored and access_token removed,
\* and has asked for a session.
C15_Witness ==
    /\ upload.pc = "page" /\ upload.page = "Home" /\ upload.creating
    /\ storage.access_token = NoToken /\ storage.session_id # NoToken

\* C16: at most one backend request started by a page is outstanding at any
\* time, whatever the user does on it; here for the chat page, whose requests
\* are the ones of its initialisation and the one of sendMessage.
C16_OneRequestOutstanding ==
    OutstandingChat <= 1

\* C19: every runAnalysis that starts a request eventually sets loading back
\* to false (on the page that started it, while that page is shown).
C19_LoadingEventuallyFalse ==
    (analysis.pc = "mounted" /\ analysis.loading)
        ~> (analysis.pc = "off" \/ ~analysis.loading)

\* C17: in the keyword-dispatch chat page every question invokes exactly one
\* analysis function, chosen from the question's text without regard to case:
\* risk analysis if it contains risk, danger or problem; else the document
\* summary if it contains summary, summarize or overview; else the negotiation
\* assistant if it contains negotiat, terms or clause; else the document
\* summary.
C17_KeywordPriority ==
    (keyword.pc # "off" /\ keyword.question # <<>>) =>
        LET q == ToLowerCase(keyword.question)
            risk == \E w \in RiskWords : Includes(q, w)
            summary == \E w \in SummaryWords : Includes(q, w)
            negotiation == \E w \in NegotiationWords : Includes(q, w)
        IN /\ Len(keyword.invoked) = 1
           /\ risk => keyword.invoked[1] = "runRiskAnalysis"
           /\ (~risk /\ summary) => keyword.invoked[1] = "runDocumentSummary"
           /\ (~risk /\ ~summary /\ negotiation) =>
                 keyword.invoked[1] = "runNegotiationAssistant"
           /\ (~risk /\ ~summary /\ ~negotiation) =>
                 keyword.invoked[1] = "runDocumentSummary"

\* "Summarize problem clauses" has words of all three lists, one of them
\* capitalised; it was answered through the risk analysis alone.
C17_Witness ==
    /\ keyword.pc = "ready"
    /\ keyword.question = <<"S", "u", "m", "m", "a", "r", "i", "z", "e", " ", "p", "r", "o", "b", "l", "e", "m", " ", "c", "l", "a", "u", "s", "e", "s">>
    /\ keyword.invoked = <<"runRiskAnalysis">>
    /\ keyword.reply # NoResult

\* C18: the documents list gains one record for a processed document and
\* then stops changing, so no two of its records have the same id.
C18_DocumentIdsUnique ==
    \A i, j \in 1..Len(storage.documents) :
        i # j => storage.documents[i].id # storage.documents[j].id

\* C20: a 401 handler never removes an access_token that a session creation
\* stored after the rejected request was sent: when the handler of a call
\* whose request left with another token (or none) finds a token in storage,
\* that token is still there after the handler's step.
C20_HandlerKeepsNewerToken ==
    [][\A c \in Calls :
         (Response401(c) /\ storage.access_token \notin {NoToken, calls[c].cur.tok})
            => storage'.access_token = storage.access_token]_vars

\* C21: in every reachable state session_id is in storage only if
\* access_token is there too.
C21_SessionIdOnlyWithToken ==
    storage.session_id # NoToken => storage.access_token # NoToken

\* C22: whenever access_token and session_id are both in storage they come
\* from the same create-session response (response i carries token i and
\* session id i).
C22_PairFromOneResponse ==
    (storage.access_token # NoToken /\ storage.session_id # NoToken) =>
        storage.access_token = storage.session_id

\* A direct createSession call has stored its pair and a 401 handler's own
\* createSession, overlapping with it, has stored another pair over it: both
\* keys are in storage and differ from what the direct call stored.
C22_Witness ==
    \E c, d \in Calls :
        /\ calls[c].kind = "createSession" /\ calls[c].st = "resolved"
        /\ calls[d].kind # "createSession" /\ calls[d].nCreate >= 1
        /\ InFlight(d) /\ calls[d].cur.replay
        /\ storage.access_token # NoToken /\ storage.session_id # NoToken
        /\ storage.access_token # calls[c].out.token

\* C23: in the chat page every sendMessage its guard accepts (text not
\* blank, isLoading false) is followed by isLoading returning to false, after
\* one user message and one assistant message have been appended; a
\* sendMessage the guard rejects changes no state and issues no request.
C23_LoadingReturnsToFalse ==
    (chat.pc = "done" /\ chat.isLoading) ~> (chat.pc = "done" /\ ~chat.isLoading)

\* C24: after clearConversation the transcript is the 'conversation cleared'
\* message followed only by messages of questions sent after the clear: the
\* message after it is a user message, never the reply to a question sent
\* before the clear.
C24_NoReplyFromBeforeClear ==
    (chat.pc # "off" /\ Len(chat.messages) >= 2 /\ chat.messages[1] = ClearedMessage)
        => chat.messages[2].role = "user"

\* C25: in the keyword-dispatch chat page, when the wrapper function chosen
\* for a question returns success false, simulateChatResponse returns the
\* fallback reply (success true, no sources, confidence 0.6) and sendMessage
\* appends it as a normal assistant message, not as an error bubble.
C25_FallbackOnFailure ==
    [][ (/\ keyword.pc = "awaiting" /\ keyword'.pc = "ready"
         /\ ~keyword'.response.success)
        => LET m == keyword'.messages[Len(keyword'.messages)] IN
           /\ keyword'.reply.success
           /\ keyword'.reply.sources = <<>>
           /\ keyword'.reply.confidence_score = "0.6"
           /\ keyword'.reply.response = <<"fallback", keyword.question>>
           /\ keyword'.messages = Append(keyword.messages, m)
           /\ m.role = "assistant" /\ ~m.isError
           /\ m.content = keyword'.reply.response
           /\ ~keyword'.isLoading
      ]_vars

\* runRiskAnalysis, chosen for "What are the RISKS?", returned success false
\* and the fallback reply is the last message of the transcript.
C25_Witness ==
    /\ keyword.pc = "ready"
    /\ keyword.invoked = <<"runRiskAnalysis">>
    /\ keyword.response # NoResult /\ ~keyword.response.success
    /\ keyword.reply # NoResult /\ keyword.reply.sources = <<>>
    /\ keyword.messages[Len(keyword.messages)].content = keyword.reply.response

C28_IntervalClearedWhenFinished ==
    (upload.pc = "page" /\ upload.page = "Home" /\ ~upload.isProcessing)
        => upload.timers = 0

====
